---- MODULE Spec2Model ----
(***************************************************************************)
(* A model of SSHAuthorizedKeysFile (src/__init__.py): one user's          *)
(* ~/.ssh/authorized_keys file and the store objects opened on it.         *)
(*                                                                         *)
(* Text is modelled as a sequence of characters.  A character of Material  *)
(* stands for the two tokens "<key-type> <base64-payload>" of a key line,  *)
(* "x" for one comment token, "!" for text that is no key at all; " " and   *)
(* "\n" are themselves.                                                    *)
(***************************************************************************)
EXTENDS Integers, Sequences, FiniteSets, TLC

VARIABLES
    homeExists,   \* isdir(user.pw_dir)
    sshDir,       \* the directory <home>/.ssh: [exists, owner]
    fileExists,   \* os.path.isfile(self.filename)
    file,         \* the bytes of <home>/.ssh/authorized_keys as readers see them
    pc,           \* per store object: where its caller is
    keys,         \* per store object: self.keys, a list of entries
    loc,          \* per store object: locals of the running append / __delitem__
    op            \* per store object: the call in progress or last completed

vars == <<homeExists, sshDir, fileExists, file, pc, keys, loc, op>>

(* ------------------------------ bounds -------------------------------- *)

\* append is not called once the file holds this many physical lines
MaxLines == 2

(* ------------------------------- text --------------------------------- *)

NL == "\n"
SP == " "
Whitespace == {SP, NL}
Material == {"A", "B"}

RECURSIVE lstrip(_)
lstrip(s) ==
    IF s # <<>> /\ Head(s) \in Whitespace THEN lstrip(Tail(s)) ELSE s

RECURSIVE rstrip(_)
rstrip(s) ==
    IF s # <<>> /\ s[Len(s)] \in Whitespace
    THEN rstrip(SubSeq(s, 1, Len(s) - 1))
    ELSE s

\* str.strip()
strip(s) == rstrip(lstrip(s))

\* the lines a text file yields when iterated or readlines() is called:
\* each line keeps its terminating newline; a last line without one is kept
RECURSIVE readlines(_)
readlines(s) ==
    IF s = <<>> THEN <<>>
    ELSE LET nls == {i \in 1..Len(s) : s[i] = NL}
         IN  IF nls = {} THEN <<s>>
             ELSE LET k == CHOOSE i \in nls : \A j \in nls : i <= j
                  IN  <<SubSeq(s, 1, k)>> \o readlines(SubSeq(s, k + 1, Len(s)))

NumLines(s) == Len(readlines(s))

RECURSIVE Concat(_)
Concat(seqs) == IF seqs = <<>> THEN <<>> ELSE Head(seqs) \o Concat(Tail(seqs))

(* --------------------------- key entries ------------------------------ *)

\* sshpubkeys.SSHKey parses keydata.strip(): a key type and a payload, then
\* an optional comment separated by whitespace
ParsesAsKey(keydata) ==
    LET t == strip(keydata)
    IN  /\ t # <<>>
        /\ t[1] \in Material
        /\ Len(t) > 1 => t[2] \in Whitespace

\* SSHAuthorizedKeysEntry(keydata): the object keeps keydata exactly as given
\* (its key type, bits and hash are functions of it).  The class defines no
\* __eq__, so two entries are equal only when they are the same object: id
\* tells the objects of one list apart
SSHAuthorizedKeysEntry(keydata, id) == [keydata |-> keydata, id |-> id]

\* object identities matter only up to renaming: number the objects of a list
\* in the order of their first occurrence
Renumber(ks) ==
    LET first(i) == CHOOSE j \in 1..i :
                        /\ ks[j].id = ks[i].id
                        /\ \A k \in 1..(j - 1) : ks[k].id # ks[i].id
    IN  [i \in 1..Len(ks) |->
            SSHAuthorizedKeysEntry(ks[i].keydata,
                Cardinality({ks[j].id : j \in 1..first(i)}))]

\* the key type and payload of a key line: what its hash is computed from
KeyMaterial(keydata) ==
    IF ParsesAsKey(keydata) THEN <<strip(keydata)[1]>> ELSE <<>>

(* ------------------------- the environment ---------------------------- *)

Stores == {1, 2}

\* the user-directory lookup pwd.getpwnam: one user is known
pw_uid == 1000
pw_gid == 1000
KnownUser == "toresbe"
Usernames == {KnownUser, "nobody"}
UserOwner == [uid |-> pw_uid, gid |-> pw_gid]
RootOwner == [uid |-> 0, gid |-> 0]
NoOwner == [uid |-> -1, gid |-> -1]

\* key lines a caller hands to append or to the entry constructor
GoodLines ==
    { <<"A">>, <<"A", SP, "x">>, <<"A", NL>> }
BadLines == { <<"!">> }
Lines == GoodLines \cup BadLines

\* contents of an authorized_keys file found at the first open
InitFiles ==
    { <<>>,
      <<"A", NL>>,
      <<NL, "B", NL>>,
      <<"A", NL, "A", NL>>,
      <<"!", NL>> }

\* indices a caller hands to f[i] and del f[i]: the first two entries from
\* either end of the list, and one index beyond either end of any list
Indices == {0 - (MaxLines + 2), 0 - 2, 0 - 1, 0, 1, MaxLines + 1}

(* ------------------------------ state --------------------------------- *)

NoLoc == [key |-> <<>>, ssh_key |-> <<>>, keyfile_entries |-> <<>>,
          wpos |-> 0, wbuf |-> <<>>, woff |-> 0]

NoOp == [kind |-> "none", arg |-> <<>>, result |-> "none", ret |-> <<>>,
         preKeys |-> <<>>, preFile |-> <<>>, preExists |-> FALSE,
         preSsh |-> FALSE, after |-> "none", same |-> FALSE,
         again |-> FALSE, at |-> <<>>]

\* the call the next one follows, when that call changed the store
Followed(s) ==
    IF op[s].result = "ok" /\ op[s].kind \in {"append_str", "delitem"}
    THEN op[s].kind ELSE "none"

\* the record of a call that starts now on store s: what it is, the state it
\* starts in, for an open or an append of a str the call it follows, and for
\* an append of a str whether it repeats that call, or repeats the append that
\* the open it follows came after, and for an append where the calls on the
\* stores are when it starts
Call(s, kind, arg) ==
    [kind |-> kind, arg |-> arg, result |-> "running", ret |-> <<>>,
     preKeys |-> keys[s], preFile |-> file, preExists |-> fileExists,
     preSsh |-> sshDir.exists,
     after |-> IF kind \in {"open", "append_str"} THEN Followed(s) ELSE "none",
     same |-> kind = "append_str" /\ op[s].kind = kind /\ op[s].arg = arg,
     again |-> /\ kind = "append_str"
               /\ op[s].kind = "open"
               /\ op[s].result = "ok"
               /\ op[s].after = "append_str"
               /\ op[s].preKeys # <<>>
               /\ op[s].preKeys[Len(op[s].preKeys)].keydata = arg,
     at |-> IF kind \in {"append_str", "append_entry"} THEN pc ELSE <<>>]

Init ==
    /\ homeExists \in BOOLEAN
    /\ sshDir \in {[exists |-> FALSE, owner |-> NoOwner]} \cup
                  {[exists |-> TRUE, owner |-> o] :
                       o \in IF homeExists THEN {RootOwner} ELSE {}}
    /\ fileExists \in IF sshDir.exists THEN BOOLEAN ELSE {FALSE}
    /\ file \in IF fileExists THEN InitFiles ELSE {<<>>}
    /\ pc = [s \in Stores |-> "none"]
    /\ keys = [s \in Stores |-> <<>>]
    /\ loc = [s \in Stores |-> NoLoc]
    /\ op = [s \in Stores |-> NoOp]

\* a call on store s starts and goes on in later steps
Begin(s, call) == op' = [op EXCEPT ![s] = call]

\* the running call on store s returns
Finish(s, result) == op' = [op EXCEPT ![s].result = result]

\* a call on store s returns or raises within the step it starts in
Return(s, call, result, ret) ==
    Begin(s, [call EXCEPT !.result = result, !.ret = ret])

(* --------------------- SSHAuthorizedKeysFile(username) ---------------- *)

\* self.keys = [SSHAuthorizedKeysEntry(key) for key in open(self.filename)]
LoadKeys(content) ==
    [i \in 1..NumLines(content) |->
        SSHAuthorizedKeysEntry(readlines(content)[i], i)]

\* variant: a line that does not parse is taken as it is
Loadable_Lenient(content) == TRUE

Loadable(content) ==
    \A i \in 1..NumLines(content) : ParsesAsKey(readlines(content)[i])

\* variant: the home directory is not checked
UserCheck_NoHomeCheck(username, home) ==
    IF username # KnownUser THEN "KeyError" ELSE "ok"

\* lines 24-30: the user lookup and the check of the home directory
UserCheck(username, home) ==
    IF username # KnownUser THEN "KeyError"
    ELSE IF ~home THEN "NoHome"
    ELSE "ok"

\* variant: mkdir without the chown: the directory stays the caller's
EnsureSshDir_NoChown(dir) ==
    IF dir.exists THEN dir ELSE [exists |-> TRUE, owner |-> RootOwner]

\* lines 34-36: make <home>/.ssh, owned by the user, unless it is there
EnsureSshDir(dir) ==
    IF dir.exists THEN dir ELSE [exists |-> TRUE, owner |-> UserOwner]

\* the constructor; a store the caller held before is discarded
Open(s, username) ==
    /\ pc[s] \in {"none", "idle"}
    /\ LET call == Call(s, "open", username)
           fail(e) == /\ pc' = [pc EXCEPT ![s] = "none"]
                      /\ keys' = [keys EXCEPT ![s] = <<>>]
                      /\ Return(s, call, e, <<>>)
           checked == UserCheck(username, homeExists)
       IN  IF checked # "ok"
           THEN /\ fail(checked)
                /\ UNCHANGED <<sshDir>>
           ELSE /\ sshDir' = EnsureSshDir(sshDir)
                /\ IF fileExists /\ ~Loadable(file)
                   THEN fail("InvalidKey")
                   ELSE /\ pc' = [pc EXCEPT ![s] = "idle"]
                        /\ keys' = [keys EXCEPT ![s] =
                               IF fileExists THEN LoadKeys(file) ELSE <<>>]
                        /\ Return(s, call, "ok", <<>>)
    /\ UNCHANGED <<homeExists, fileExists, file, loc>>

(* ------------------------------ append -------------------------------- *)

Range(seq) == {seq[i] : i \in 1..Len(seq)}

\* variant: line 47 comparing the key material, as a fingerprint would
InKeysStr_ByMaterial(keydata, ks) ==
    \E i \in 1..Len(ks) : KeyMaterial(ks[i].keydata) = KeyMaterial(keydata)

\* line 47: keydata in [k.keydata for k in self.keys]
InKeysStr(keydata, ks) == \E i \in 1..Len(ks) : ks[i].keydata = keydata

\* line 56: key.keydata in [k.keydata.strip() for k in self.keys]
InKeysEntry(keydata, ks) == \E i \in 1..Len(ks) : strip(ks[i].keydata) = keydata

\* variant: the str branch without the check of lines 47-48
AppendStrOutcome_Unchecked(keydata, ks) ==
    IF ~ParsesAsKey(keydata) THEN "InvalidKey" ELSE "ok"

\* variant: the str branch taking the line without parsing it
AppendStrOutcome_Unparsed(keydata, ks) ==
    IF InKeysStr(keydata, ks) THEN "Duplicate" ELSE "ok"

\* lines 46-52: the str branch, up to the entry it yields
AppendStrOutcome(keydata, ks) ==
    IF InKeysStr(keydata, ks) THEN "Duplicate"
    ELSE IF ~ParsesAsKey(keydata) THEN "InvalidKey"
    ELSE "ok"

\* lines 54-57: the SSHAuthorizedKeysEntry branch
AppendEntryOutcome(keydata, ks) ==
    IF InKeysEntry(keydata, ks) THEN "Duplicate" ELSE "ok"

\* variant: the line is written without its newline
AppendToFile_NoNewline(content, keydata) == content \o keydata

\* line 62: open(self.filename, 'a').write(key.keydata + '\n')
AppendToFile(content, keydata) == content \o keydata \o <<NL>>

\* a new object, none of those in the list ks
NewEntry(keydata, ks) == SSHAuthorizedKeysEntry(keydata, Len(ks) + 1)

\* the call up to and including line 62, or up to the exception it raises
AppendCall(s, call, key, outcome) ==
    /\ pc[s] = "idle"
    /\ IF outcome = "ok"
       THEN /\ NumLines(file) < MaxLines
            /\ file' = AppendToFile(file, key.keydata)
            /\ fileExists' = TRUE
            /\ loc' = [loc EXCEPT ![s].key = key]
            /\ pc' = [pc EXCEPT ![s] = "append_written"]
            /\ Begin(s, call)
       ELSE /\ Return(s, call, outcome, <<>>)
            /\ UNCHANGED <<file, fileExists, loc, pc>>
    /\ UNCHANGED <<homeExists, sshDir, keys>>

\* append(keydata) with a str
AppendStr(s, keydata) ==
    AppendCall(s, Call(s, "append_str", keydata), NewEntry(keydata, keys[s]),
               AppendStrOutcome(keydata, keys[s]))

\* append(key) with an entry object the caller constructed or took from a store
AppendEntry(s, key) ==
    AppendCall(s, Call(s, "append_entry", key), key,
               AppendEntryOutcome(key.keydata, keys[s]))

\* append(x) with anything else: line 60
AppendOther(s) ==
    AppendCall(s, Call(s, "append_other", <<>>), NoLoc.key, "TypeError")

\* line 63: self.keys.append(key)
AppendFinish(s) ==
    /\ pc[s] = "append_written"
    /\ keys' = [keys EXCEPT ![s] = Renumber(Append(keys[s], loc[s].key))]
    /\ loc' = [loc EXCEPT ![s] = NoLoc]
    /\ pc' = [pc EXCEPT ![s] = "idle"]
    /\ Finish(s, "ok")
    /\ UNCHANGED <<homeExists, sshDir, fileExists, file>>

\* the entry objects a caller can hand to append: one it constructed from a
\* valid line, or one it took from the store
EntryArgs(s) == {NewEntry(l, keys[s]) : l \in GoodLines} \cup Range(keys[s])

(* ----------------------- __getitem__ / __delitem__ -------------------- *)

\* variant: only the indices from 0 are accepted
InRange_FromZero(i, n) == 0 <= i /\ i < n

\* whether the list index i of self.keys[i] is accepted for a list of n items
InRange(i, n) == 0 - n <= i /\ i < n

\* the position (from 1) that list index i addresses in a list of n items
Pos(i, n) == IF i < 0 THEN n + i + 1 ELSE i + 1

\* f[i]
GetItem(s, i) ==
    /\ pc[s] = "idle"
    /\ LET call == Call(s, "getitem", i)
           n == Len(keys[s])
       IN  IF InRange(i, n)
           THEN Return(s, call, "ok", keys[s][Pos(i, n)])
           ELSE Return(s, call, "IndexError", <<>>)
    /\ UNCHANGED <<homeExists, sshDir, fileExists, file, pc, keys, loc>>

\* line 72: [x.strip() for x in keyfile.readlines()]
ReadStripped(content) ==
    [i \in 1..NumLines(content) |-> strip(readlines(content)[i])]

\* list.remove(x): drops the first item equal to x (for entries: the first
\* occurrence of the object x)
RECURSIVE RemoveFirst(_, _)
RemoveFirst(seq, x) ==
    IF seq = <<>> THEN <<>>
    ELSE IF Head(seq) = x THEN Tail(seq)
    ELSE <<Head(seq)>> \o RemoveFirst(Tail(seq), x)

\* lines 76-77: what one turn of the loop hands to keyfile.write
WriteBack(ssh_key, keydata) ==
    IF ssh_key.keydata # keydata THEN keydata \o <<NL>> ELSE <<>>

\* lines 74-77: all that the rewrite writes
Rewritten(ssh_key, keyfile_entries) ==
    Concat([i \in 1..Len(keyfile_entries) |->
               WriteBack(ssh_key, keyfile_entries[i])])

\* del f[i], lines 69-72: pick the entry, read the file
DelBegin(s, i) ==
    /\ pc[s] = "idle"
    /\ LET call == Call(s, "delitem", i)
           n == Len(keys[s])
       IN  IF ~InRange(i, n)
           THEN /\ Return(s, call, "IndexError", <<>>)
                /\ UNCHANGED <<pc, loc>>
           ELSE IF ~fileExists
           THEN /\ Return(s, call, "IOError", <<>>)
                /\ UNCHANGED <<pc, loc>>
           ELSE /\ Begin(s, call)
                /\ loc' = [loc EXCEPT ![s] =
                       [NoLoc EXCEPT !.ssh_key = keys[s][Pos(i, n)],
                                     !.keyfile_entries = ReadStripped(file)]]
                /\ pc' = [pc EXCEPT ![s] = "del_read"]
    /\ UNCHANGED <<homeExists, sshDir, fileExists, file, keys>>

\* variant: the file is read again when it is opened for writing
DelOpenW_Reread(s) ==
    /\ pc[s] = "del_read"
    /\ file' = <<>>
    /\ fileExists' = TRUE
    /\ loc' = [loc EXCEPT ![s].wpos = 1, ![s].wbuf = <<>>, ![s].woff = 0,
                          ![s].keyfile_entries = ReadStripped(file)]
    /\ pc' = [pc EXCEPT ![s] = "del_writing"]
    /\ UNCHANGED <<homeExists, sshDir, keys, op>>

\* line 74: open(self.filename, 'w') truncates the file
DelOpenW(s) ==
    /\ pc[s] = "del_read"
    /\ file' = <<>>
    /\ fileExists' = TRUE
    /\ loc' = [loc EXCEPT ![s].wpos = 1, ![s].wbuf = <<>>, ![s].woff = 0]
    /\ pc' = [pc EXCEPT ![s] = "del_writing"]
    /\ UNCHANGED <<homeExists, sshDir, keys, op>>

\* lines 75-77: one turn of the loop; write() goes to the file object's buffer
DelWrite(s) ==
    /\ pc[s] = "del_writing"
    /\ loc[s].wpos <= Len(loc[s].keyfile_entries)
    /\ loc' = [loc EXCEPT
                 ![s].wbuf = @ \o WriteBack(loc[s].ssh_key,
                                  loc[s].keyfile_entries[loc[s].wpos]),
                 ![s].wpos = @ + 1]
    /\ UNCHANGED <<homeExists, sshDir, fileExists, file, pc, keys, op>>

\* the byte a file reads as where nothing was written
NUL == "0"

\* a file opened with 'w' is written at the offset of the file object, over
\* what the file holds there; the file grows when the write ends beyond it
WriteAt(content, off, buf) ==
    LET n == Len(content)
        gap == [i \in 1..(off - n) |-> NUL]
    IN  SubSeq(content, 1, off) \o gap \o buf
            \o SubSeq(content, off + Len(buf) + 1, n)

\* the file object's buffer reaches the file (when it fills, at any turn)
DelFlush(s) ==
    /\ pc[s] = "del_writing"
    /\ loc[s].wbuf # <<>>
    /\ file' = WriteAt(file, loc[s].woff, loc[s].wbuf)
    /\ loc' = [loc EXCEPT ![s].wbuf = <<>>, ![s].woff = @ + Len(loc[s].wbuf)]
    /\ UNCHANGED <<homeExists, sshDir, fileExists, pc, keys, op>>

\* the with block closes the file (the rest of the buffer is written), then
\* line 79: self.keys.remove(ssh_key)
DelFinish(s) ==
    /\ pc[s] = "del_writing"
    /\ loc[s].wpos > Len(loc[s].keyfile_entries)
    /\ file' = WriteAt(file, loc[s].woff, loc[s].wbuf)
    /\ keys' = [keys EXCEPT ![s] =
                   Renumber(RemoveFirst(keys[s], loc[s].ssh_key))]
    /\ loc' = [loc EXCEPT ![s] = NoLoc]
    /\ pc' = [pc EXCEPT ![s] = "idle"]
    /\ Finish(s, "ok")
    /\ UNCHANGED <<homeExists, sshDir, fileExists>>

(* --------------------------- specification ---------------------------- *)

\* what the caller holding store s, and the calls it has running, can do next
StoreNext(s) ==
    \/ \E u \in Usernames : Open(s, u)
    \/ \E l \in Lines : AppendStr(s, l)
    \/ \E k \in EntryArgs(s) : AppendEntry(s, k)
    \/ AppendOther(s)
    \/ AppendFinish(s)
    \/ \E i \in Indices : GetItem(s, i)
    \/ \E i \in Indices : DelBegin(s, i)
    \/ DelOpenW(s)
    \/ DelWrite(s)
    \/ DelFlush(s)
    \/ DelFinish(s)

\* one caller, one store object at a time: every call runs to completion
Next == StoreNext(1)

Spec == Init /\ [][Next]_vars

\* the key lines the caller of store s appends when two callers work on the
\* same file: each has keys of its own
OwnLines(s) == IF s = 1 THEN {<<"A">>, <<"A", NL>>} ELSE {<<"B">>}

\* what a caller that opens its store and appends its keys can do next
AppendNext(s) ==
    \/ Open(s, KnownUser)
    \/ \E l \in OwnLines(s) : AppendStr(s, l)
    \/ AppendFinish(s)

\* what a caller that also deletes can do next
DeleteNext(s) ==
    \/ \E i \in {0, 0 - 1} : DelBegin(s, i)
    \/ DelOpenW(s)
    \/ DelWrite(s)
    \/ DelFlush(s)
    \/ DelFinish(s)

\* two callers, each with a store object of its own on the same file, that
\* open and append in any interleaving
NextAppenders == \E s \in Stores : AppendNext(s)

SpecAppenders == Init /\ [][NextAppenders]_vars

\* the caller of store 1 opens and deletes while the caller of store 2 opens
\* and appends
NextConcurrent == Open(1, KnownUser) \/ DeleteNext(1) \/ AppendNext(2)

SpecConcurrent == Init /\ [][NextConcurrent]_vars

(* ============================== claims ================================ *)

\* the text the specification calls `raw`: an entry's keydata
Keydatas(ks) == [i \in 1..Len(ks) |-> ks[i].keydata]

Trimmed(ks) == [i \in 1..Len(ks) |-> strip(ks[i].keydata)]

NonBlank(line) == line # <<>>

\* the lines of the file, trimmed, without those that are blank
NonBlankLines(content) == SelectSeq(ReadStripped(content), NonBlank)

NoDuplicates(ks) ==
    \A i, j \in 1..Len(ks) :
        strip(ks[i].keydata) = strip(ks[j].keydata) => i = j

\* the call on store s has returned (normally or by raising)
Returned(s) == pc[s] \in {"idle", "none"} /\ op[s].result # "running"

Succeeded(s, kinds) ==
    pc[s] = "idle" /\ op[s].kind \in kinds /\ op[s].result = "ok"

AppendKinds == {"append_str", "append_entry"}

\* C1: Invariant A - after every successful append or delete, the raw texts
\* of `entries` (compared trimmed, the reading that favours the code) are the
\* non-blank trimmed lines of the file, in the same order.
C1_FileMemoryAgree ==
    \A s \in Stores :
        Succeeded(s, AppendKinds \cup {"delitem"}) =>
            Trimmed(keys[s]) = NonBlankLines(file)

\* C2: Invariant B - a successful append to entries without duplicates leaves
\* no two entries with the same raw keydata after trimming.
C2_NoDuplicateEntries ==
    \A s \in Stores :
        Succeeded(s, AppendKinds) /\ NoDuplicates(op[s].preKeys) =>
            NoDuplicates(keys[s])

\* C3: dedup idempotence - append(L) of a valid line L right after append(L)
\* fails with DuplicateKey and leaves `entries` and the file as they were.
C3_DedupIdempotent ==
    \A s \in Stores :
        ( /\ Returned(s)
          /\ op[s].kind = "append_str"
          /\ op[s].same
          /\ op[s].arg \in GoodLines )
        => /\ op[s].result = "Duplicate"
           /\ keys[s] = op[s].preKeys
           /\ file = op[s].preFile
           /\ fileExists = op[s].preExists

\* append("A\n") succeeded and the same call right after it was refused
C3_Witness ==
    /\ Returned(1)
    /\ op[1].kind = "append_str"
    /\ op[1].same
    /\ op[1].after = "append_str"
    /\ op[1].arg = <<"A", NL>>
    /\ op[1].result = "Duplicate"

\* C4: round trip - append(L) of a valid line L, then discarding and
\* reopening the store, yields the entries there were before the append
\* followed by one entry whose raw is L trimmed.
C4_RoundTrip ==
    \A s \in Stores :
        ( /\ Returned(s)
          /\ op[s].kind = "open"
          /\ op[s].after = "append_str" )
        => LET n == Len(op[s].preKeys)
           IN  /\ op[s].result = "ok"
               /\ Keydatas(keys[s]) =
                      Keydatas(SubSeq(op[s].preKeys, 1, n - 1))
                          \o <<strip(op[s].preKeys[n].keydata)>>

\* the list without its item at position p
RemoveAt(seq, p) == SubSeq(seq, 1, p - 1) \o SubSeq(seq, p + 1, Len(seq))

\* C5: delete persistence - delete(i) with a valid index removes entry i from
\* `entries`, and reopening after it yields exactly the entries that remain,
\* in their order (raw texts compared trimmed, the reading that favours the
\* code).
C5_DeletePersists ==
    \A s \in Stores :
        /\ Succeeded(s, {"delitem"}) =>
               Keydatas(keys[s]) =
                   Keydatas(RemoveAt(op[s].preKeys,
                                     Pos(op[s].arg, Len(op[s].preKeys))))
        /\ ( /\ Returned(s)
             /\ op[s].kind = "open"
             /\ op[s].after = "delitem" )
           => /\ op[s].result = "ok"
              /\ Trimmed(keys[s]) = Trimmed(op[s].preKeys)

IndexKinds == {"getitem", "delitem"}

StoreUnchanged(s) ==
    /\ keys[s] = op[s].preKeys
    /\ file = op[s].preFile
    /\ fileExists = op[s].preExists

\* C6 as claimed: at(i) and delete(i) fail with IndexOutOfRange for every i
\* outside [0, len(entries)), every negative i included, and change nothing.
C6_IndexBounds_AsClaimed ==
    \A s \in Stores :
        ( /\ Returned(s)
          /\ op[s].kind \in IndexKinds
          /\ (op[s].arg < 0 \/ op[s].arg >= Len(op[s].preKeys)) )
        => /\ op[s].result = "IndexError"
           /\ StoreUnchanged(s)

\* C6 as amended: at(i) and delete(i) fail with IndexOutOfRange exactly for
\* the i outside [-len(entries), len(entries)), and the failed call changes
\* neither `entries` nor the file; a negative i from -len(entries) on
\* addresses entry len(entries) + i.
C6_IndexBounds ==
    \A s \in Stores :
        ( Returned(s) /\ op[s].kind \in IndexKinds )
        => LET n == Len(op[s].preKeys)
               i == op[s].arg
               outside == i < 0 - n \/ i >= n
               at == IF i < 0 THEN n + i + 1 ELSE i + 1
           IN  /\ op[s].result = "IndexError" <=> outside
               /\ op[s].result = "IndexError" => StoreUnchanged(s)
               /\ op[s].result # "IndexError" =>
                      /\ op[s].result = "ok"
                      /\ op[s].kind = "getitem" =>
                             op[s].ret = op[s].preKeys[at]

\* a delete with a negative index below -len(entries) has failed on a store
\* that holds entries
C6_Witness ==
    /\ Returned(1)
    /\ op[1].kind = "delitem"
    /\ Len(op[1].preKeys) = 2
    /\ op[1].arg < 0 - Len(op[1].preKeys)
    /\ op[1].result = "IndexError"

\* C7: delete atomicity - at every step of delete(i) the file a reader opens
\* holds either the complete contents from before the delete or the complete
\* contents the delete leaves, never an empty or partly written file.
C7_DeleteAtomic ==
    \A s \in Stores :
        pc[s] \in {"del_read", "del_writing"} =>
            \/ file = op[s].preFile
            \/ file = Rewritten(loc[s].ssh_key, loc[s].keyfile_entries)

\* C8: append of an unparsable raw line fails with InvalidKeyFormat and leaves
\* `entries`, the file's content and the file's existence as they were.
C8_InvalidAppendNoEffect ==
    \A s \in Stores :
        ( /\ Returned(s)
          /\ op[s].kind = "append_str"
          /\ op[s].arg \in BadLines )
        => /\ op[s].result = "InvalidKey"
           /\ StoreUnchanged(s)

\* an unparsable line was refused by a store that holds entries
C8_Witness ==
    /\ Returned(1)
    /\ op[1].kind = "append_str"
    /\ op[1].arg = <<"!">>
    /\ op[1].result = "InvalidKey"
    /\ Len(keys[1]) = 1

\* C9: dedup is over the whole trimmed line - a valid line whose key material
\* an entry already has, with another comment, and whose trimmed text no
\* entry has, is appended: one more entry, one more line in the file.
C9_DedupByRawLine ==
    \A s \in Stores :
        ( /\ Returned(s)
          /\ op[s].kind = "append_str"
          /\ op[s].arg \in GoodLines
          /\ \E i \in 1..Len(op[s].preKeys) :
                 /\ strip(op[s].preKeys[i].keydata)[1] = strip(op[s].arg)[1]
                 /\ strip(op[s].preKeys[i].keydata) # strip(op[s].arg)
          /\ \A i \in 1..Len(op[s].preKeys) :
                 strip(op[s].preKeys[i].keydata) # strip(op[s].arg) )
        => /\ op[s].result = "ok"
           /\ Keydatas(keys[s]) = Keydatas(op[s].preKeys) \o <<op[s].arg>>
           /\ NonBlankLines(file) =
                  NonBlankLines(op[s].preFile) \o <<strip(op[s].arg)>>

\* "A x" was appended right after "A": two entries, two lines
C9_Witness ==
    /\ Returned(1)
    /\ op[1].kind = "append_str"
    /\ op[1].after = "append_str"
    /\ op[1].result = "ok"
    /\ Keydatas(keys[1]) = << <<"A">>, <<"A", SP, "x">> >>
    /\ file = <<"A", NL, "A", SP, "x", NL>>

\* what an open that has returned leaves behind
C10_OpenState ==
    \A s \in Stores :
        ( Returned(s) /\ op[s].kind = "open" ) =>
            /\ ( op[s].arg = KnownUser /\ homeExists /\ ~op[s].preSsh ) =>
                   /\ op[s].result = "ok"
                   /\ pc[s] = "idle"
                   /\ sshDir = [exists |-> TRUE,
                                owner |-> [uid |-> pw_uid, gid |-> pw_gid]]
                   /\ keys[s] = <<>>
            /\ ~op[s].preExists => ~fileExists

\* a step that brings the file into existence is the write of an append
C10_FileCreation ==
    (~fileExists /\ fileExists') =>
        \E s \in Stores :
            /\ op'[s].kind \in AppendKinds
            /\ pc'[s] = "append_written"
            /\ op'[s].result = "running"
            /\ file' = loc'[s].key.keydata \o <<NL>>

\* C10: bootstrap - open for a user whose home exists without .ssh creates
\* .ssh owned by the user's uid and gid and succeeds with zero entries; an
\* open that finds no authorized_keys file leaves it absent; and the file
\* comes into existence only by the write of a successful append.
C10_Bootstrap == []C10_OpenState /\ [][C10_FileCreation]_vars

\* an open has made .ssh and found no file; the store is empty
C10_Witness ==
    /\ Returned(1)
    /\ op[1].kind = "open"
    /\ op[1].result = "ok"
    /\ ~op[1].preSsh
    /\ sshDir.exists
    /\ ~fileExists
    /\ keys[1] = <<>>

\* C11: a failing open has no filesystem effect - open fails with UnknownUser
\* for a username the lookup does not know and with NoHomeDirectory when the
\* home directory does not exist; neither creates .ssh or the file, and no
\* store is returned.
C11_FailedOpenNoEffect ==
    \A s \in Stores :
        ( /\ Returned(s)
          /\ op[s].kind = "open"
          /\ (op[s].arg # "toresbe" \/ ~homeExists) )
        => /\ op[s].result = IF op[s].arg # "toresbe" THEN "KeyError"
                             ELSE "NoHome"
           /\ pc[s] = "none"
           /\ keys[s] = <<>>
           /\ sshDir.exists = op[s].preSsh
           /\ fileExists = op[s].preExists
           /\ file = op[s].preFile

\* open for the known user was refused because the home directory is missing
C11_Witness ==
    /\ Returned(1)
    /\ op[1].kind = "open"
    /\ op[1].arg = KnownUser
    /\ op[1].result = "NoHome"
    /\ ~sshDir.exists
    /\ ~fileExists

\* whether line i of the text is a key line, blank, or neither
LineKind(content, i) ==
    LET l == strip(readlines(content)[i])
    IN  IF l = <<>> THEN "blank"
        ELSE IF l[1] \in {"A", "B"} /\ (Len(l) > 1 => l[2] \in {" ", "\n"})
        THEN "key"
        ELSE "malformed"

\* an open for the known user, whose home exists, that found the file
OpenedOnFile(s) ==
    /\ Returned(s)
    /\ op[s].kind = "open"
    /\ op[s].arg = "toresbe"
    /\ homeExists
    /\ op[s].preExists

\* C12: blank lines are skipped on load - open on a file of valid key lines
\* and blank lines succeeds, and `entries` holds exactly the non-blank lines
\* in file order.
C12_BlankLinesSkipped ==
    \A s \in Stores :
        ( /\ OpenedOnFile(s)
          /\ \A i \in 1..NumLines(op[s].preFile) :
                 LineKind(op[s].preFile, i) # "malformed" )
        => /\ op[s].result = "ok"
           /\ Trimmed(keys[s]) = NonBlankLines(op[s].preFile)

\* C13: a malformed historical line aborts open - when a non-blank line of
\* the file does not parse as a key, open fails with InvalidKeyFormat, yields
\* no store, and leaves the file unmodified.
C13_MalformedLineAborts ==
    \A s \in Stores :
        ( /\ OpenedOnFile(s)
          /\ \E i \in 1..NumLines(op[s].preFile) :
                 LineKind(op[s].preFile, i) = "malformed" )
        => /\ op[s].result = "InvalidKey"
           /\ pc[s] = "none"
           /\ keys[s] = <<>>
           /\ fileExists
           /\ file = op[s].preFile

\* open was refused on the file that holds the line "!"
C13_Witness ==
    /\ OpenedOnFile(1)
    /\ op[1].preFile = <<"!", NL>>
    /\ op[1].result = "InvalidKey"
    /\ pc[1] = "none"

\* the first position of the sequence that holds x, 0 when none does
FirstAt(seq, x) ==
    IF \E k \in 1..Len(seq) : seq[k] = x
    THEN CHOOSE k \in 1..Len(seq) :
             seq[k] = x /\ \A j \in 1..(k - 1) : seq[j] # x
    ELSE 0

\* C14: delete(i) removes exactly one physical line - the first whose
\* trimmed text equals the raw of entries[i] - and writes every other line
\* back, later lines of the same trimmed content included; the non-blank
\* lines of the file and the entries each get one fewer.
C14_DeleteOneLine ==
    \A s \in Stores :
        Succeeded(s, {"delitem"}) =>
            LET n    == Len(op[s].preKeys)
                raw  == strip(op[s].preKeys[Pos(op[s].arg, n)].keydata)
                was  == ReadStripped(op[s].preFile)
                k    == FirstAt(was, raw)
            IN  /\ k > 0
                /\ ReadStripped(file) = RemoveAt(was, k)
                /\ Len(NonBlankLines(file)) =
                       Len(NonBlankLines(op[s].preFile)) - 1
                /\ Len(keys[s]) = n - 1

\* C16: the system never writes a blank line - every line a successful append
\* wrote is non-blank, and no line of the file a successful delete rewrote is
\* blank.
C16_NoBlankLineWritten ==
    \A s \in Stores :
        /\ Succeeded(s, AppendKinds) =>
               \A i \in (NumLines(op[s].preFile) + 1)..NumLines(file) :
                   strip(readlines(file)[i]) # <<>>
        /\ Succeeded(s, {"delitem"}) =>
               \A i \in 1..NumLines(file) : strip(readlines(file)[i]) # <<>>

\* C17: the two append entry points agree - on every store and for every
\* valid line L, with or without whitespace around it, append(L) of the str
\* and append of the entry parsed from L have the same outcome.
C17_EntryPointsAgree ==
    \A s \in Stores :
        pc[s] = "idle" =>
            \A l \in GoodLines :
                AppendStrOutcome(l, keys[s]) = AppendEntryOutcome(l, keys[s])

IsPrefix(a, b) == Len(a) <= Len(b) /\ a = SubSeq(b, 1, Len(a))

\* C15: append ordering and crash recovery - a successful append writes the
\* line to the end of the file before it appends to `entries`; at the step
\* between the two the raw texts of `entries` are a prefix of the non-blank
\* lines of the file, and an open at that point (the reopen after an
\* interruption) succeeds and yields a store that holds the appended key.
C15_AppendOrdering ==
    \A s \in Stores :
        pc[s] = "append_written" =>
            /\ keys[s] = op[s].preKeys
            /\ file = op[s].preFile \o loc[s].key.keydata \o <<NL>>
            /\ IsPrefix(Trimmed(keys[s]), NonBlankLines(file))
            /\ \A i \in 1..NumLines(file) : ParsesAsKey(readlines(file)[i])
            /\ \E i \in 1..NumLines(file) :
                   strip(readlines(file)[i]) = strip(loc[s].key.keydata)

\* C20: duplicate detection survives a reopen - after append(L) of a valid
\* line, a reopen, and append(L) of the same str again, the last call fails
\* with DuplicateKey and the file holds exactly one line for L.
C20_DedupAfterReopen ==
    \A s \in Stores :
        ( /\ Returned(s)
          /\ op[s].kind = "append_str"
          /\ op[s].again )
        => /\ op[s].result = "Duplicate"
           /\ Cardinality({i \in 1..NumLines(file) :
                  strip(readlines(file)[i]) = strip(op[s].arg)}) = 1

\* the text stands in the file whole, from the start of a line on
Written(content, text) ==
    \E k \in 0..(Len(content) - Len(text)) :
        /\ k = 0 \/ content[k] = NL
        /\ SubSeq(content, k + 1, k + Len(text)) = text

\* the line of the last append of each store, when it succeeded, is in the
\* file, whole and with its newline
C18_Present ==
    \A s \in Stores :
        Succeeded(s, AppendKinds) =>
            Written(file, keys[s][Len(keys[s])].keydata \o <<NL>>)

\* no step of callers that open and append takes anything out of the file
C18_Kept == IsPrefix(file, file')

\* C18: concurrent appends are independent - when two store objects on the
\* same file append distinct keys in any interleaving, with no deletes, every
\* line appended with success is in the file, whole and ended by its newline,
\* and stays there.
C18_ConcurrentAppends == []C18_Present /\ [][C18_Kept]_vars

\* both stores appended with success, and the write of store 2 came between
\* the write of store 1 and its append to `entries`
C18_Witness ==
    /\ Succeeded(1, AppendKinds)
    /\ Succeeded(2, AppendKinds)
    /\ op[2].at[1] = "append_written"
    /\ op[1].arg # op[2].arg
    /\ op[2].preFile = op[1].preFile \o op[1].arg \o <<NL>>

\* store t appended with success, and its write came after the read of the
\* last delete on store s and before the file was opened for the rewrite
AppendedWithinDelete(s, t) ==
    /\ s # t
    /\ Succeeded(s, {"delitem"})
    /\ Succeeded(t, AppendKinds)
    /\ op[t].at[s] = "del_read"
    /\ op[t].preFile = op[s].preFile

\* C19: lost update with two writers - when the write of an append on one
\* store lands between the read and the rewrite of a delete on another, then
\* after the delete the file is the rewrite of what the delete read: the line
\* appended with success is lost.
C19_LostUpdate ==
    \A s, t \in Stores :
        AppendedWithinDelete(s, t) =>
            LET n == Len(op[s].preKeys)
                gone == op[s].preKeys[Pos(op[s].arg, n)].keydata
                was == op[t].preFile
            IN  /\ NumLines(file) <= NumLines(was)
                /\ \A i \in 1..NumLines(was) :
                       strip(readlines(was)[i]) # gone =>
                           \E j \in 1..NumLines(file) :
                               readlines(file)[j] =
                                   strip(readlines(was)[i]) \o <<NL>>
                /\ \A j \in 1..NumLines(file) :
                       \E i \in 1..NumLines(was) :
                           readlines(file)[j] =
                               strip(readlines(was)[i]) \o <<NL>>

\* the append of the line B on store 2 landed within a delete on store 1, and
\* after the delete no line of the file is B
C19_Witness ==
    /\ AppendedWithinDelete(1, 2)
    /\ op[2].arg = <<"B">>
    /\ \A j \in 1..NumLines(file) : strip(readlines(file)[j]) # <<"B">>

====
